---- MODULE Spec2Model ----
(***************************************************************************)
(* A model of ros2-realsense-db3-to-video.py: the batch converter that     *)
(* reads the IMU, color and depth topics of a rosbag and pipes the frames  *)
(* of each image topic into an ffmpeg child process.                       *)
(*                                                                         *)
(* Abstractions.  A frame is its shape and the index of the message it was *)
(* built from; its bytes are counted, not stored (frame.tobytes() has      *)
(* height * width * 3 bytes).  The messages of a topic are chosen when the *)
(* lazy generator reader.messages() yields them.  process.stdin.write is   *)
(* a blocking write into a pipe of PipeCap bytes; Python's buffer in front *)
(* of the pipe is left out (it adds capacity, and a write it absorbs after *)
(* ffmpeg has exited fails in close() instead, which also raises).  ffmpeg *)
(* is an environment process that reads its stdin, writes diagnostics to   *)
(* its stderr, opens its output file and exits, in any interleaving and    *)
(* with any exit code.                                                     *)
(***************************************************************************)
EXTENDS Integers, Sequences, FiniteSets, TLC

\* ---------------------------------------------------------------- bounds
\* Messages one topic holds at most.
MaxMsgs == 2
\* Capacity, in bytes, of the pipe to ffmpeg's stdin.
PipeCap == 4
\* Capacity, in bytes, of the pipe from ffmpeg's stderr.
ErrCap == 1
\* Bytes of diagnostics one ffmpeg process writes at most.
MaxDiag == 2

\* (height, width) pairs a message may declare.
FrameSizes == {<<1, 1>>, <<2, 1>>}
\* How far a message's buffer length may be off its declared shape.
SizeSlack == {0, 1, 2}
\* Exit codes of ffmpeg.
ExitCodes == {0, 1}

\* ---------------------------------------------------------- configuration
OUTPUT_DIR == "output"
ENABLE_COMPRESSION == FALSE
BITRATE == "24000k"
FPS == 30

ColorOut == OUTPUT_DIR \o "/" \o "color_video.mp4"
DepthOut == OUTPUT_DIR \o "/" \o "depth_video.mp4"
Outputs == {ColorOut, DepthOut}

\* Python's None, for frame_width and frame_height.
None == -1

VARIABLES
    \* main
    pc,              \* position of main
    dirExists,       \* OUTPUT_DIR exists
    readerOpen,      \* the AnyReader is open
    imuPos,          \* messages the IMU generator has yielded so far
    nColor,          \* messages the color topic has yielded
    nDepth,          \* messages the depth topic has yielded
    color_frames,
    depth_frames,
    frame_width,
    frame_height,
    failed,          \* a deserialize / frombuffer / reshape raised
    \* create_video: its arguments and locals
    cvpc,            \* position of create_video
    frames,
    output_path,
    width,
    height,
    enable_compression,
    idx,             \* 1-based index of the frame the loop is writing
    off,             \* bytes of that frame already in the pipe
    stderrText,      \* bytes process.stderr.read() has collected
    returncode,      \* process.returncode
    stdinClosed,     \* process.stdin has been closed
    \* the world outside the script
    proc,            \* the ffmpeg process of each output path
    files,           \* output files that exist
    \* history
    launches,        \* Popen calls, per output path
    reports,         \* what has been printed since create_video was last called
    bytesWritten,    \* bytes written to process.stdin in this call
    written,         \* ids of the frames written in full, in order
    events           \* the phases of the run, in order

mainVars == <<pc, dirExists, readerOpen, imuPos, nColor, nDepth, color_frames,
              depth_frames, frame_width, frame_height, failed>>
argVars == <<frames, output_path, width, height, enable_compression>>
cvVars == <<cvpc, idx, off, stderrText, returncode, stdinClosed>>
histVars == <<launches, reports, bytesWritten, written>>
vars == <<mainVars, argVars, cvVars, proc, files, histVars, events>>

\* ---------------------------------------------------------------- helpers
Min(a, b) == IF a < b THEN a ELSE b

Last(s) == s[Len(s)]

\* The log of phases: a phase is entered once, however many steps it takes.
LogTo(ev, e) == IF ev # <<>> /\ Last(ev) = e THEN ev ELSE Append(ev, e)
Log(e) == LogTo(events, e)

NoProc == [state |-> "none", rc |-> 0, inPipe |-> 0, errPipe |-> 0,
           emitted |-> 0, cmd |-> <<>>]

Alive(p) == p.state \in {"running", "diag"}

Report(kind, path, text) == [kind |-> kind, path |-> path, text |-> text]

\* --------------------------------------------------------------- messages
\* An image message: whether it deserializes, its declared shape and the
\* length of its data buffer in bytes.
ImageMessages(bytesPerPixel) ==
    { [decodable |-> d, height |-> s[1], width |-> s[2],
       size |-> s[1] * s[2] * bytesPerPixel + k] :
        d \in BOOLEAN, s \in FrameSizes, k \in SizeSlack }

\* np.frombuffer(msg.data, dtype=np.uint8).reshape(msg.height, msg.width, 3)
ColorReshapeOk(msg) == msg.size = msg.height * msg.width * 3

\* np.frombuffer(msg.data, dtype=np.uint16).reshape(msg.height, msg.width):
\* the buffer is whole 16-bit samples, one per pixel.
DepthReshapeOk(msg) ==
    /\ msg.size % 2 = 0
    /\ msg.size \div 2 = msg.height * msg.width

\* The frame built from the n-th message of a topic: cvtColor keeps the shape,
\* normalize + applyColorMap turn (h, w) into (h, w, 3).
Frame(msg, n) == [height |-> msg.height, width |-> msg.width, id |-> n]

\* len(frame.tobytes())
FrameBytes(f) == f.height * f.width * 3

\* A variant of Propagate: the failing message is skipped and the loop goes on.
Propagate_Swallow(at) == at

\* An exception leaving the with block: AnyReader.__exit__ closes the reader
\* and nothing in main catches it.
Propagate(at) == "aborted"

\* A variant of WithExit: the reader is never closed.
WithExit_Leak(open) == open

\* AnyReader.__exit__
WithExit(open) == FALSE

\* ------------------------------------------------------------------- main
\* OUTPUT_DIR.mkdir(exist_ok=True); get_typestore_foxy(); AnyReader.__enter__
MainStart ==
    /\ pc = "start"
    /\ dirExists' = TRUE
    /\ readerOpen' = TRUE
    /\ events' = Log("open")
    /\ pc' = "imu"
    /\ UNCHANGED <<imuPos, nColor, nDepth, color_frames, depth_frames,
                   frame_width, frame_height, failed>>
    /\ UNCHANGED <<argVars, cvVars, proc, files, histVars>>

\* A failing message: the exception unwinds through the with block.
Raise(at) ==
    /\ failed' = TRUE
    /\ pc' = Propagate(at)
    /\ readerOpen' = IF Propagate(at) = "aborted" THEN WithExit(readerOpen)
                     ELSE readerOpen

\* extract_imu_data: one message of the IMU topic
ImuMessage ==
    /\ pc = "imu"
    /\ imuPos < MaxMsgs
    /\ events' = Log("imu")
    /\ imuPos' = imuPos + 1
    /\ \E decodable \in BOOLEAN :
          IF decodable
          THEN UNCHANGED <<pc, readerOpen, failed>>
          ELSE Raise("imu")
    /\ UNCHANGED <<dirExists, nColor, nDepth, color_frames, depth_frames,
                   frame_width, frame_height>>
    /\ UNCHANGED <<argVars, cvVars, proc, files, histVars>>

\* extract_imu_data returns: the generator is exhausted
ImuEnd ==
    /\ pc = "imu"
    /\ pc' = "color"
    /\ imuPos' = 0
    /\ events' = Log("imu")
    /\ UNCHANGED <<dirExists, readerOpen, nColor, nDepth, color_frames,
                   depth_frames, frame_width, frame_height, failed>>
    /\ UNCHANGED <<argVars, cvVars, proc, files, histVars>>

\* extract_color_frames: one message of the color topic
ColorMessage ==
    /\ pc = "color"
    /\ nColor < MaxMsgs
    /\ events' = Log("color")
    /\ nColor' = nColor + 1
    /\ \E msg \in ImageMessages(3) :
          IF msg.decodable /\ ColorReshapeOk(msg)
          THEN /\ color_frames' = Append(color_frames, Frame(msg, nColor + 1))
               /\ IF frame_width = None
                  THEN /\ frame_height' = msg.height
                       /\ frame_width' = msg.width
                  ELSE UNCHANGED <<frame_width, frame_height>>
               /\ UNCHANGED <<pc, readerOpen, failed>>
          ELSE /\ Raise("color")
               /\ UNCHANGED <<color_frames, frame_width, frame_height>>
    /\ UNCHANGED <<dirExists, imuPos, nDepth, depth_frames>>
    /\ UNCHANGED <<argVars, cvVars, proc, files, histVars>>

\* extract_color_frames returns
ColorEnd ==
    /\ pc = "color"
    /\ pc' = "depth"
    /\ events' = Log("color")
    /\ UNCHANGED <<dirExists, readerOpen, imuPos, nColor, nDepth, color_frames,
                   depth_frames, frame_width, frame_height, failed>>
    /\ UNCHANGED <<argVars, cvVars, proc, files, histVars>>

\* extract_depth_frames: one message of the depth topic
DepthMessage ==
    /\ pc = "depth"
    /\ nDepth < MaxMsgs
    /\ events' = Log("depth")
    /\ nDepth' = nDepth + 1
    /\ \E msg \in ImageMessages(2) :
          IF msg.decodable /\ DepthReshapeOk(msg)
          THEN /\ depth_frames' = Append(depth_frames, Frame(msg, nDepth + 1))
               /\ UNCHANGED <<pc, readerOpen, failed>>
          ELSE /\ Raise("depth")
               /\ UNCHANGED depth_frames
    /\ UNCHANGED <<dirExists, imuPos, nColor, color_frames, frame_width,
                   frame_height>>
    /\ UNCHANGED <<argVars, cvVars, proc, files, histVars>>

\* extract_depth_frames returns and the with block ends
DepthEnd ==
    /\ pc = "depth"
    /\ pc' = "check"
    /\ readerOpen' = WithExit(readerOpen)
    /\ events' = LogTo(Log("depth"), "close")
    /\ UNCHANGED <<dirExists, imuPos, nColor, nDepth, color_frames,
                   depth_frames, frame_width, frame_height, failed>>
    /\ UNCHANGED <<argVars, cvVars, proc, files, histVars>>

\* A variant of SizeUnknown: the size check is missing.
SizeUnknown_Never(w, h) == FALSE

\* `if width is None or height is None`
SizeUnknown(w, h) == w = None \/ h = None

\* The state of create_video when it is called.
Call(fr, path, w, h, flag) ==
    /\ frames' = fr
    /\ output_path' = path
    /\ width' = w
    /\ height' = h
    /\ enable_compression' = flag
    /\ cvpc' = "entry"
    /\ idx' = 1
    /\ off' = 0
    /\ stderrText' = 0
    /\ returncode' = None
    /\ stdinClosed' = FALSE
    /\ reports' = <<>>
    /\ bytesWritten' = 0
    /\ written' = <<>>

\* The size check after the with block and the call for the color video
MainCheck ==
    /\ pc = "check"
    /\ IF SizeUnknown(frame_width, frame_height)
       THEN /\ reports' = Append(reports, Report("NoFrameSize", "", 0))
            /\ pc' = "done"
            /\ UNCHANGED <<argVars, cvVars, bytesWritten, written>>
       ELSE IF color_frames # <<>>
            THEN /\ Call(color_frames, ColorOut, frame_width, frame_height,
                         ENABLE_COMPRESSION)
                 /\ pc' = "color_video"
            ELSE /\ pc' = "after_color"
                 /\ UNCHANGED <<argVars, cvVars, reports, bytesWritten, written>>
    /\ UNCHANGED <<dirExists, readerOpen, imuPos, nColor, nDepth, color_frames,
                   depth_frames, frame_width, frame_height, failed>>
    /\ UNCHANGED <<proc, files, launches, events>>

\* create_video for the color video returns to main
MainColorReturn ==
    /\ pc = "color_video"
    /\ cvpc = "returned"
    /\ pc' = "after_color"
    /\ UNCHANGED <<dirExists, readerOpen, imuPos, nColor, nDepth, color_frames,
                   depth_frames, frame_width, frame_height, failed>>
    /\ UNCHANGED <<argVars, cvVars, proc, files, histVars, events>>

\* `if depth_frames:` and the call for the depth video
MainDepth ==
    /\ pc = "after_color"
    /\ IF depth_frames # <<>>
       THEN /\ Call(depth_frames, DepthOut, frame_width, frame_height,
                    ENABLE_COMPRESSION)
            /\ pc' = "depth_video"
       ELSE /\ pc' = "done"
            /\ UNCHANGED <<argVars, cvVars, reports, bytesWritten, written>>
    /\ UNCHANGED <<dirExists, readerOpen, imuPos, nColor, nDepth, color_frames,
                   depth_frames, frame_width, frame_height, failed>>
    /\ UNCHANGED <<proc, files, launches, events>>

\* create_video for the depth video returns to main, which ends
MainDepthReturn ==
    /\ pc = "depth_video"
    /\ cvpc = "returned"
    /\ pc' = "done"
    /\ UNCHANGED <<dirExists, readerOpen, imuPos, nColor, nDepth, color_frames,
                   depth_frames, frame_width, frame_height, failed>>
    /\ UNCHANGED <<argVars, cvVars, proc, files, histVars, events>>

\* ----------------------------------------------------------- create_video
\* A variant of NothingToWrite: the empty-sequence check is missing.
NothingToWrite_Never(fr) == FALSE

\* `if not frames`
NothingToWrite(fr) == fr = <<>>

\* codec = 'libx264' if enable_compression else 'mpeg4'
Codec(flag) == IF flag THEN "libx264" ELSE "mpeg4"

\* crf = '23' if enable_compression else '0'
Crf(flag) == IF flag THEN "23" ELSE "0"

\* A variant of BitrateArgs: the bitrate is passed whatever the flag.
BitrateArgs_Always(flag) == <<"-b:v", BITRATE>>

\* cmd.extend(['-b:v', BITRATE]) when enable_compression
BitrateArgs(flag) == IF flag THEN <<"-b:v", BITRATE>> ELSE <<>>

\* The argument list handed to Popen.
Cmd(path, fps, w, h, flag) ==
    << "ffmpeg", "-y",
       "-f", "rawvideo",
       "-pixel_format", "bgr24",
       "-video_size", ToString(w) \o "x" \o ToString(h),
       "-framerate", ToString(fps),
       "-i", "pipe:",
       "-c:v", Codec(flag),
       "-crf", Crf(flag),
       "-preset", "medium" >>
    \o BitrateArgs(flag)
    \o << path >>

LaunchEvent(path) == IF path = ColorOut THEN "launch_color" ELSE "launch_depth"
ExitEvent(path) == IF path = ColorOut THEN "exit_color" ELSE "exit_depth"

\* The empty-sequence check, the command line and subprocess.Popen
CvEntry ==
    /\ cvpc = "entry"
    /\ IF NothingToWrite(frames)
       THEN /\ reports' = Append(reports, Report("NoFrames", output_path, 0))
            /\ cvpc' = "returned"
            /\ UNCHANGED <<proc, launches, events>>
       ELSE /\ proc' = [proc EXCEPT ![output_path] =
                          [NoProc EXCEPT !.state = "running",
                                         !.cmd = Cmd(output_path, FPS, width,
                                                     height, enable_compression)]]
            /\ launches' = [launches EXCEPT ![output_path] = @ + 1]
            /\ events' = Log(LaunchEvent(output_path))
            /\ cvpc' = "write"
            /\ UNCHANGED reports
    /\ UNCHANGED <<mainVars, argVars, idx, off, stderrText, returncode,
                   stdinClosed, files, bytesWritten, written>>

\* A variant of NextFrame: every other frame is skipped.
NextFrame_Skip(i) == i + 2

\* The frame the loop takes after the one at index i.
NextFrame(i) == i + 1

\* `for frame in frames` has a frame left
MoreFrames(i, fr) == i <= Len(fr)

\* process.stdin.write(frame.tobytes()): a blocking write.  It puts what
\* fits into the pipe and goes on when ffmpeg has read; it raises
\* BrokenPipeError when ffmpeg has exited and the read end is closed.
CvWrite ==
    /\ cvpc = "write"
    /\ MoreFrames(idx, frames)
    /\ LET p == proc[output_path]
           rest == FrameBytes(frames[idx]) - off
           n == Min(rest, PipeCap - p.inPipe)
       IN  IF p.state = "exited"
           THEN /\ cvpc' = "raised"
                /\ UNCHANGED <<idx, off, proc, bytesWritten, written>>
           ELSE /\ n > 0
                /\ proc' = [proc EXCEPT ![output_path].inPipe = @ + n]
                /\ bytesWritten' = bytesWritten + n
                /\ IF n = rest
                   THEN /\ idx' = NextFrame(idx)
                        /\ off' = 0
                        /\ written' = Append(written, frames[idx].id)
                   ELSE /\ off' = off + n
                        /\ UNCHANGED <<idx, written>>
                /\ UNCHANGED cvpc
    /\ UNCHANGED <<mainVars, argVars, stderrText, returncode, stdinClosed,
                   files, launches, reports, events>>

\* process.stdin.close()
CvClose ==
    /\ cvpc = "write"
    /\ ~MoreFrames(idx, frames)
    /\ stdinClosed' = TRUE
    /\ cvpc' = "read_stderr"
    /\ UNCHANGED <<mainVars, argVars, idx, off, stderrText, returncode, proc,
                   files, histVars, events>>

\* process.stderr.read() takes what ffmpeg has written so far
CvReadStderr ==
    /\ cvpc = "read_stderr"
    /\ proc[output_path].errPipe > 0
    /\ stderrText' = stderrText + proc[output_path].errPipe
    /\ proc' = [proc EXCEPT ![output_path].errPipe = 0]
    /\ UNCHANGED <<mainVars, argVars, cvpc, idx, off, returncode, stdinClosed,
                   files, histVars, events>>

\* process.stderr.read() returns: ffmpeg has exited and its stderr is drained
CvReadEOF ==
    /\ cvpc = "read_stderr"
    /\ proc[output_path].errPipe = 0
    /\ proc[output_path].state = "exited"
    /\ cvpc' = "wait"
    /\ UNCHANGED <<mainVars, argVars, idx, off, stderrText, returncode,
                   stdinClosed, proc, files, histVars, events>>

\* process.wait() and the report on process.returncode
CvWaitReport ==
    /\ cvpc = "wait"
    /\ proc[output_path].state = "exited"
    /\ returncode' = proc[output_path].rc
    /\ reports' = Append(reports,
                         IF proc[output_path].rc # 0
                         THEN Report("Error", output_path, stderrText)
                         ELSE Report("Saved", output_path, 0))
    /\ cvpc' = "returned"
    /\ UNCHANGED <<mainVars, argVars, idx, off, stderrText, stdinClosed, proc,
                   files, launches, bytesWritten, written, events>>

\* ------------------------------------------------------------------ ffmpeg
\* ffmpeg reads some of the bytes waiting on its stdin
EncRead ==
    \E o \in Outputs, k \in 1..PipeCap :
        /\ proc[o].state = "running"
        /\ k <= proc[o].inPipe
        /\ proc' = [proc EXCEPT ![o].inPipe = @ - k]
        /\ UNCHANGED <<mainVars, argVars, cvVars, files, histVars, events>>

\* ffmpeg starts a write of one byte of diagnostics to its stderr
EncDiagBegin ==
    \E o \in Outputs :
        /\ proc[o].state = "running"
        /\ proc[o].emitted < MaxDiag
        /\ proc' = [proc EXCEPT ![o].state = "diag"]
        /\ UNCHANGED <<mainVars, argVars, cvVars, files, histVars, events>>

\* that write goes through once the stderr pipe has room
EncDiagWrite ==
    \E o \in Outputs :
        /\ proc[o].state = "diag"
        /\ proc[o].errPipe < ErrCap
        /\ proc' = [proc EXCEPT ![o].state = "running",
                                ![o].errPipe = @ + 1,
                                ![o].emitted = @ + 1]
        /\ UNCHANGED <<mainVars, argVars, cvVars, files, histVars, events>>

\* ffmpeg creates its output file (-y: an existing one is overwritten)
EncOpenOutput ==
    \E o \in Outputs :
        /\ proc[o].state = "running"
        /\ o \notin files
        /\ files' = files \cup {o}
        /\ UNCHANGED <<mainVars, argVars, cvVars, proc, histVars, events>>

\* ffmpeg exits: its end of both pipes closes, unread input is lost
EncExit ==
    \E o \in Outputs, rc \in ExitCodes :
        /\ proc[o].state = "running"
        /\ proc' = [proc EXCEPT ![o].state = "exited",
                                ![o].rc = rc,
                                ![o].inPipe = 0,
                                ![o].emitted = 0]
        /\ events' = Log(ExitEvent(o))
        /\ UNCHANGED <<mainVars, argVars, cvVars, files, histVars>>

\* ---------------------------------------------------------- specifications
InitWorld ==
    /\ proc = [o \in Outputs |-> NoProc]
    /\ files = {}
    /\ launches = [o \in Outputs |-> 0]
    /\ reports = <<>>
    /\ bytesWritten = 0
    /\ written = <<>>
    /\ events = <<>>
    /\ idx = 1
    /\ off = 0
    /\ stderrText = 0
    /\ returncode = None
    /\ stdinClosed = FALSE

InitMain(at) ==
    /\ pc = at
    /\ dirExists = FALSE
    /\ readerOpen = FALSE
    /\ imuPos = 0
    /\ nColor = 0
    /\ nDepth = 0
    /\ color_frames = <<>>
    /\ depth_frames = <<>>
    /\ frame_width = None
    /\ frame_height = None
    /\ failed = FALSE

\* The script is started: main has not run yet.
Init ==
    /\ InitMain("start")
    /\ InitWorld
    /\ cvpc = "idle"
    /\ frames = <<>>
    /\ output_path = ColorOut
    /\ width = None
    /\ height = None
    /\ enable_compression = ENABLE_COMPRESSION

CreateVideo ==
    \/ CvEntry
    \/ CvWrite
    \/ CvClose
    \/ CvReadStderr
    \/ CvReadEOF
    \/ CvWaitReport

Ffmpeg ==
    \/ EncRead
    \/ EncDiagBegin
    \/ EncDiagWrite
    \/ EncOpenOutput
    \/ EncExit

Next ==
    \/ MainStart
    \/ ImuMessage
    \/ ImuEnd
    \/ ColorMessage
    \/ ColorEnd
    \/ DepthMessage
    \/ DepthEnd
    \/ MainCheck
    \/ MainColorReturn
    \/ MainDepth
    \/ MainDepthReturn
    \/ CreateVideo
    \/ Ffmpeg

Spec == Init /\ [][Next]_vars

\* Every frame sequence of at most MaxMsgs frames, the i-th built from the
\* i-th message.
FrameSeqs ==
    UNION { { [i \in 1..n |-> [height |-> s[i][1], width |-> s[i][2], id |-> i]] :
                s \in [1..n -> FrameSizes] } : n \in 0..MaxMsgs }

\* One call of create_video with any arguments.
InitCV ==
    /\ InitMain("caller")
    /\ InitWorld
    /\ cvpc = "entry"
    /\ frames \in FrameSeqs
    /\ output_path \in Outputs
    /\ \E s \in FrameSizes : height = s[1] /\ width = s[2]
    /\ enable_compression \in BOOLEAN

NextCV == CreateVideo \/ Ffmpeg

SpecCV == InitCV /\ [][NextCV]_vars

\* ------------------------------------------------------------------ claims
Range(s) == { s[i] : i \in DOMAIN s }

NothingLaunched ==
    /\ \A o \in Outputs : launches[o] = 0 /\ proc[o].state = "none"
    /\ files = {}

\* C1: a call of create_video with an empty frame sequence, whatever its
\* other arguments, never launches ffmpeg and creates no file; it prints
\* that there are no frames to write, and nothing else, and returns.
C1_EmptyIsNoOp ==
    frames = <<>> =>
        /\ NothingLaunched
        /\ cvpc \in {"entry", "returned"}
        /\ cvpc = "returned" => reports = <<Report("NoFrames", output_path, 0)>>

C1_Witness ==
    /\ frames = <<>>
    /\ cvpc = "returned"
    /\ reports = <<Report("NoFrames", output_path, 0)>>
    /\ enable_compression

\* C2: when the color topic has no message, whatever the other topics
\* hold, main never calls create_video: no ffmpeg is launched and neither
\* output file is created; a run that gets past the extraction ends with the
\* printed size error, and a run that does not ends with the exception of the
\* failing message.
C2_NoColorNoEncoding ==
    (nColor = 0 /\ pc \notin {"start", "imu", "color"}) =>
        /\ NothingLaunched
        /\ cvpc = "idle"
        /\ pc \in {"depth", "check", "done", "aborted"}
        /\ pc = "done" => reports = <<Report("NoFrameSize", "", 0)>>
        /\ pc = "aborted" => failed

C2_Witness ==
    /\ pc = "done"
    /\ nColor = 0
    /\ depth_frames # <<>>
    /\ reports = <<Report("NoFrameSize", "", 0)>>
    /\ files = {}

\* C3: when process.stdin is closed, the bytes written to it are
\* frame_count * width * height * 3, for the width and height the call got.
C3_ByteCount ==
    stdinClosed => bytesWritten = Len(frames) * width * height * 3

SameShape(fr) ==
    \A i \in DOMAIN fr : fr[i].height = fr[1].height /\ fr[i].width = fr[1].width

\* C4: every frame of color_frames, and every frame of depth_frames, has the
\* width and height of the first frame of its sequence.
C4_UniformShape == SameShape(color_frames) /\ SameShape(depth_frames)

HasPair(c, key, value) ==
    \E i \in 1..(Len(c) - 1) : c[i] = key /\ c[i + 1] = value

\* C5: the command line of every ffmpeg launched ends with the output path;
\* without compression its -crf value is '0' and it has no -b:v argument,
\* with compression it has -b:v followed by BITRATE.
C5_CommandLine ==
    \A o \in Outputs :
        LET c == proc[o].cmd
        IN  proc[o].state # "none" =>
              /\ o = output_path
              /\ Last(c) = output_path
              /\ ~enable_compression =>
                    /\ HasPair(c, "-crf", "0")
                    /\ "-b:v" \notin Range(c)
              /\ enable_compression => HasPair(c, "-b:v", BITRATE)

C5_Witness ==
    /\ enable_compression
    /\ proc[output_path].state = "running"
    /\ HasPair(proc[output_path].cmd, "-b:v", "24000k")
    /\ Last(proc[output_path].cmd) = output_path

\* C6: when the ffmpeg of a call on a non-empty sequence exits with a
\* non-zero code, at whatever moment, create_video does not raise, launched
\* ffmpeg once for that output, and returns having printed the error with
\* the captured diagnostics, once.
C6_ErrorReportedOnce ==
    LET p == proc[output_path]
    IN  (frames # <<>> /\ p.state = "exited" /\ p.rc # 0) =>
            /\ cvpc # "raised"
            /\ launches[output_path] = 1
            /\ cvpc = "returned" =>
                  reports = <<Report("Error", output_path, stderrText)>>

PhaseOrder ==
    << "open", "imu", "color", "depth", "close",
       "launch_color", "exit_color", "launch_depth", "exit_depth" >>

Phase(e) == CHOOSE i \in DOMAIN PhaseOrder : PhaseOrder[i] = e

\* C7: the phases of a run of main come in one order: the reader is opened,
\* the IMU, color and depth topics are read, the reader is closed, the color
\* ffmpeg is launched and exits, the depth ffmpeg is launched and exits.  No
\* ffmpeg is alive while the reader is open, and never two at once.
C7_PhaseOrder ==
    /\ \A i \in DOMAIN events : events[i] \in Range(PhaseOrder)
    /\ \A i \in 1..(Len(events) - 1) : Phase(events[i]) < Phase(events[i + 1])
    /\ \A o \in Outputs :
          proc[o].state # "none" =>
              /\ ~readerOpen
              /\ SubSeq(events, 1, 5) = SubSeq(PhaseOrder, 1, 5)
    /\ ~(Alive(proc[ColorOut]) /\ Alive(proc[DepthOut]))
    /\ proc[DepthOut].state # "none" =>
          proc[ColorOut].state \in {"none", "exited"}
    /\ readerOpen <=> pc \in {"imu", "color", "depth"}

C7_Witness ==
    /\ events = PhaseOrder
    /\ pc = "done"
    /\ files = Outputs

\* C8: in a call on a non-empty sequence the frames are written in the order
\* of the sequence, which is the order their messages arrived in, each once;
\* process.stdin is closed only when all are written; diagnostics are read,
\* the process is waited for and the outcome printed only after the close.
C8_WriteOrder ==
    (frames # <<>> /\ cvpc # "idle") =>
        /\ \A i \in DOMAIN frames : frames[i].id = i
        /\ Len(written) <= Len(frames)
        /\ \A i \in DOMAIN written : written[i] = frames[i].id
        /\ stdinClosed => Len(written) = Len(frames)
        /\ cvpc \in {"read_stderr", "wait"} => stdinClosed
        /\ (stderrText > 0 \/ returncode # None \/ reports # <<>>) => stdinClosed

C8_Witness ==
    /\ cvpc = "returned"
    /\ Len(frames) = 2
    /\ frames[1].height # frames[2].height
    /\ written = <<1, 2>>
    /\ reports = <<Report("Saved", output_path, 0)>>
    /\ pc = "depth_video"

AbortedClean ==
    failed =>
        /\ pc = "aborted"
        /\ ~readerOpen
        /\ NothingLaunched
        /\ cvpc = "idle"

\* C9: once a message of any topic fails to decode or reshape, the run is
\* over: the reader is closed, no step of the program follows (nothing
\* further is read), no ffmpeg is launched and no output file is created,
\* also when frames were extracted before the failure.
C9_DecodeFailureAborts == []AbortedClean /\ [][~failed]_vars

C9_Witness ==
    /\ failed
    /\ pc = "aborted"
    /\ color_frames # <<>>
    /\ depth_frames # <<>>
    /\ ~readerOpen

\* C10: the parent is never blocked writing a frame to a full stdin pipe
\* while ffmpeg is blocked writing diagnostics to a full stderr pipe, which
\* the parent reads only after it has closed stdin.
C10_NoPipeDeadlock ==
    LET p == proc[output_path]
    IN  ~ /\ cvpc = "write"
          /\ MoreFrames(idx, frames)
          /\ p.inPipe = PipeCap
          /\ p.state = "diag"
          /\ p.errPipe = ErrCap

====
